---- MODULE Spec2Model ----
(***************************************************************************)
(* State-machine model of app/calculator.py (class Calculator): the        *)
(* operation pipeline, the undo/redo memento stacks, the observer fan-out  *)
(* and the CSV persistence of the history.                                 *)
(*                                                                         *)
(* Every public method of Calculator is one action.  The collaborators     *)
(* whose code lives in other modules of the package (InputValidator,       *)
(* Operation, Calculation, CalculatorConfig, HistoryObserver) are modelled *)
(* from their documented contract.                                         *)
(***************************************************************************)
EXTENDS Integers, Sequences, FiniteSets, TLC

(***************************************************************************)
(* Bounds of the model.                                                    *)
(***************************************************************************)
\* config.max_history_size: the configured bound on len(history).
max_history_size == 2
\* config.max_input_value: the largest accepted operand magnitude.
max_input_value == 3
\* Calculations created in one run (each takes the next clock tick): enough
\* to fill an empty history and overflow it.
MaxClock == 3
\* Calculations created in a run that also saves and loads the history file.
MaxShortRun == 2
\* Calculations created in a run that also registers observers and passes
\* operands that fail validation.
MaxNotifyRun == 1
\* Registrations in the observer list.
MaxObservers == 2
\* Registrations in the observer list in a run that also removes observers:
\* enough for an observer registered twice around another one.
MaxRegistrations == 3

\* Rows a pre-existing history file may hold: one more than the bound, as
\* after a run under a larger max_history_size.
MaxFileRows == max_history_size + 1
\* An operand just above max_input_value.
TooBig == max_input_value + 1

(***************************************************************************)
(* Values.                                                                 *)
(***************************************************************************)
\* Raw operands as the caller passes them: a string or a number.
Str(s) == [kind |-> "str", text |-> s, num |-> 0]
Num(n) == [kind |-> "num", text |-> "", num |-> n]

\* Inputs of perform_operation(a, b): operands that validate, and all
\* operands (text that is no number and numbers above max_input_value too).
ValidA == {Num(2)}
ValidB == {Num(0), Str("1")}
RawA == ValidA \cup {Str("abc"), Num(TooBig)}
RawB == ValidB \cup {Str("abc"), Num(TooBig)}

Strategies == {"Addition", "Division"}
ObserverIds == {"o1", "o2"}

\* Numbers a CSV cell can denote, and instants a timestamp can denote.
NumRange == (0 - 2 * TooBig) .. (2 * TooBig)
TimeRange == (0 - MaxFileRows) .. MaxClock

\* str(Decimal): the canonical decimal string of a number.
DecimalStr(n) == ToString(n)
\* datetime.isoformat(): the ISO string of an instant.
IsoFormat(t) == "T" \o ToString(t)

\* Decimal(text): defined when the text is a decimal numeral.
IsNumeral(s) == \E n \in NumRange : DecimalStr(n) = s
ParseDecimal(s) == CHOOSE n \in NumRange : DecimalStr(n) = s
\* datetime.fromisoformat(text).
IsIso(s) == \E t \in TimeRange : IsoFormat(t) = s
ParseIso(s) == CHOOSE t \in TimeRange : IsoFormat(t) = s

Abs(n) == IF n < 0 THEN 0 - n ELSE n

(***************************************************************************)
(* Errors: a type and a message; the message is a sequence of text parts,  *)
(* so that wrapping keeps the cause readable.                              *)
(***************************************************************************)
NoError == [type |-> "none", msg |-> <<>>]
ValidationError(m) == [type |-> "ValidationError", msg |-> m]
OperationError(m) == [type |-> "OperationError", msg |-> m]
ObserverFailure(o) == [type |-> "Exception", msg |-> <<"observer failed: ", o>>]
\* list.remove(x) when x is not in the list.
ValueError(m) == [type |-> "ValueError", msg |-> m]

(***************************************************************************)
(* InputValidator.validate_number(value, config).                          *)
(***************************************************************************)
validate_number(raw) ==
    LET numeric == raw.kind = "num" \/ IsNumeral(raw.text)
        n == IF raw.kind = "num" THEN raw.num ELSE ParseDecimal(raw.text)
    IN  IF ~numeric
          THEN [ok |-> FALSE, value |-> 0,
                err |-> ValidationError(<<"Invalid number format: ", raw.text>>)]
        ELSE IF Abs(n) > max_input_value
          THEN [ok |-> FALSE, value |-> 0,
                err |-> ValidationError(<<"Value exceeds maximum allowed: ",
                                          DecimalStr(max_input_value)>>)]
        ELSE [ok |-> TRUE, value |-> n, err |-> NoError]

(***************************************************************************)
(* Operation.execute(a, b) of the strategy variants, and str(strategy).    *)
(***************************************************************************)
execute(strategy, a, b) ==
    IF strategy = "Addition"
      THEN [ok |-> TRUE, value |-> a + b, err |-> NoError]
    ELSE IF b = 0
      THEN [ok |-> FALSE, value |-> 0,
            err |-> OperationError(<<"Division by zero is not allowed">>)]
    ELSE [ok |-> TRUE, value |-> a \div b, err |-> NoError]

DisplayName(strategy) == strategy

(***************************************************************************)
(* Calculation(operation, operand1, operand2): the record, with its result *)
(* and the instant of its creation.                                        *)
(***************************************************************************)
Calculation(operation, operand1, operand2, instant) ==
    [operation |-> operation, operand1 |-> operand1, operand2 |-> operand2,
     result |-> execute(operation, operand1, operand2).value,
     timestamp |-> instant]

(***************************************************************************)
(* The engine state the operations work on: history and the two stacks.    *)
(* A memento holds a copy of the history list (CalculatorMemento(          *)
(* self.history.copy())); values of the model are immutable, so a copy is  *)
(* the sequence itself.                                                    *)
(***************************************************************************)
Engine(h, u, r) == [history |-> h, undo_stack |-> u, redo_stack |-> r]

\* Faulty variant: the stack is bounded like the history, its oldest memento
\* dropped on overflow.
PushMemento_Bounded(stack, h) ==
    IF Len(stack) >= max_history_size THEN Append(Tail(stack), h)
    ELSE Append(stack, h)

\* self.undo_stack.append(CalculatorMemento(self.history.copy()))
PushMemento(stack, h) == Append(stack, h)

\* Faulty variant: the newest record is dropped on overflow (pop() for pop(0)).
EnforceBound_DropNewest(h) ==
    IF Len(h) > max_history_size THEN SubSeq(h, 1, Len(h) - 1) ELSE h

\* if len(self.history) > self.config.max_history_size: self.history.pop(0)
EnforceBound(h) == IF Len(h) > max_history_size THEN Tail(h) ELSE h

\* Faulty variant: the memento is taken after the append, not before.
RecordCalculation_SnapshotAfter(st, calculation) ==
    Engine(EnforceBound(Append(st.history, calculation)),
           PushMemento(st.undo_stack, EnforceBound(Append(st.history, calculation))),
           <<>>)

\* Faulty variant: the redo stack is not cleared.
RecordCalculation_KeepRedo(st, calculation) ==
    Engine(EnforceBound(Append(st.history, calculation)),
           PushMemento(st.undo_stack, st.history),
           st.redo_stack)

\* perform_operation's update of history and stacks with the new calculation.
RecordCalculation(st, calculation) ==
    Engine(EnforceBound(Append(st.history, calculation)),
           PushMemento(st.undo_stack, st.history),
           <<>>)

\* Faulty variant: the restored memento, not the current history, is pushed
\* onto the redo stack.
UndoEffect_PushesRestored(st) ==
    LET memento == st.undo_stack[Len(st.undo_stack)]
    IN  Engine(memento,
               SubSeq(st.undo_stack, 1, Len(st.undo_stack) - 1),
               PushMemento(st.redo_stack, memento))

\* undo(), when the undo stack is not empty.
UndoEffect(st) ==
    LET memento == st.undo_stack[Len(st.undo_stack)]
    IN  Engine(memento,
               SubSeq(st.undo_stack, 1, Len(st.undo_stack) - 1),
               PushMemento(st.redo_stack, st.history))

\* redo(), when the redo stack is not empty.
RedoEffect(st) ==
    LET memento == st.redo_stack[Len(st.redo_stack)]
    IN  Engine(memento,
               PushMemento(st.undo_stack, st.history),
               SubSeq(st.redo_stack, 1, Len(st.redo_stack) - 1))

\* Faulty variant: the undo stack is not cleared.
ClearEffect_KeepsUndo(st) == Engine(<<>>, st.undo_stack, <<>>)

\* clear_history().
ClearEffect(st) == Engine(<<>>, <<>>, <<>>)

\* The record perform_operation builds: Calculation(operation=str(strategy),
\* operand1=validated_a, operand2=validated_b).
NewCalculation_SwapsOperands(strategy, a, b, instant) ==
    Calculation(DisplayName(strategy), b, a, instant)

NewCalculation(strategy, a, b, instant) ==
    Calculation(DisplayName(strategy), a, b, instant)

\* Faulty variant: the last registration equal to the observer is removed.
RemoveFirst_RemovesLast(obs, observer) ==
    LET i == CHOOSE k \in 1..Len(obs) :
                /\ obs[k] = observer
                /\ \A j \in (k + 1)..Len(obs) : obs[j] # observer
    IN  SubSeq(obs, 1, i - 1) \o SubSeq(obs, i + 1, Len(obs))

\* self.observers.remove(observer), when the observer is in the list: the
\* first element equal to it is removed.
RemoveFirst(obs, observer) ==
    LET i == CHOOSE k \in 1..Len(obs) :
                /\ obs[k] = observer
                /\ \A j \in 1..(k - 1) : obs[j] # observer
    IN  SubSeq(obs, 1, i - 1) \o SubSeq(obs, i + 1, Len(obs))

\* Faulty variant: only the first registration is notified.
notify_observers_FirstOnly(obs, calculation, failAt) ==
    LET n == IF Len(obs) = 0 THEN 0 ELSE 1
    IN  [called |-> [i \in 1..n |-> [observer |-> obs[i], calculation |-> calculation]],
         err |-> IF failAt = 1 THEN ObserverFailure(obs[1]) ELSE NoError]

(***************************************************************************)
(* notify_observers(calculation): observer.update is called for each       *)
(* registration in list order; an update that raises ends the loop.        *)
(* failAt = 0: no update raises; failAt = i: the i-th registration's       *)
(* update raises.  The result lists the updates that were called.          *)
(***************************************************************************)
notify_observers(obs, calculation, failAt) ==
    LET n == IF failAt = 0 THEN Len(obs) ELSE failAt
    IN  [called |-> [i \in 1..n |-> [observer |-> obs[i], calculation |-> calculation]],
         err |-> IF failAt = 0 THEN NoError ELSE ObserverFailure(obs[failAt])]

(***************************************************************************)
(* perform_operation(a, b) as a function of the state: the new engine      *)
(* state, what the caller gets (a value or an error), the steps taken and  *)
(* the observer updates called.                                            *)
(***************************************************************************)
Outcome(st, err, ret, steps, called, created) ==
    [st |-> st, err |-> err, ret |-> ret, steps |-> steps, called |-> called,
     created |-> created]

\* Faulty variant: a ValidationError is wrapped like any other exception.
Reraise_WrapsAll(e) == OperationError(<<"Operation failed: ">> \o e.msg)

\* except ValidationError: raise  /  except Exception as e: raise OperationError(...)
Reraise(e) ==
    IF e.type = "ValidationError" THEN e
    ELSE OperationError(<<"Operation failed: ">> \o e.msg)

\* Faulty variant: the operands are validated before the strategy is looked at.
PerformOperation_ValidatesFirst(st, strategy, obs, a, b, instant, failAt) ==
    LET va == validate_number(a)
        vb == validate_number(b)
        ex == execute(strategy, va.value, vb.value)
        calculation == NewCalculation(strategy, va.value, vb.value, instant)
        st2 == RecordCalculation(st, calculation)
        nt == notify_observers(obs, calculation, failAt)
    IN  IF ~va.ok
          THEN Outcome(st, Reraise(va.err), 0, <<"validate_a">>, <<>>, FALSE)
        ELSE IF ~vb.ok
          THEN Outcome(st, Reraise(vb.err), 0, <<"validate_a", "validate_b">>, <<>>, FALSE)
        ELSE IF strategy = "None"
          THEN Outcome(st, OperationError(<<"No operation set">>), 0,
                       <<"validate_a", "validate_b">>, <<>>, FALSE)
        ELSE IF ~ex.ok
          THEN Outcome(st, Reraise(ex.err), 0,
                       <<"validate_a", "validate_b", "execute">>, <<>>, FALSE)
        ELSE IF nt.err.type # "none"
          THEN Outcome(st2, Reraise(nt.err), 0,
                       <<"validate_a", "validate_b", "execute", "record", "notify">>,
                       nt.called, TRUE)
        ELSE Outcome(st2, NoError, ex.value,
                     <<"validate_a", "validate_b", "execute", "record", "notify">>,
                     nt.called, TRUE)

PerformOperation(st, strategy, obs, a, b, instant, failAt) ==
    IF strategy = "None"
      THEN Outcome(st, OperationError(<<"No operation set">>), 0, <<>>, <<>>, FALSE)
    ELSE
    LET va == validate_number(a)
        vb == validate_number(b)
        ex == execute(strategy, va.value, vb.value)
        calculation == NewCalculation(strategy, va.value, vb.value, instant)
        st2 == RecordCalculation(st, calculation)
        nt == notify_observers(obs, calculation, failAt)
    IN  IF ~va.ok
          THEN Outcome(st, Reraise(va.err), 0, <<"validate_a">>, <<>>, FALSE)
        ELSE IF ~vb.ok
          THEN Outcome(st, Reraise(vb.err), 0, <<"validate_a", "validate_b">>, <<>>, FALSE)
        ELSE IF ~ex.ok
          THEN Outcome(st, Reraise(ex.err), 0,
                       <<"validate_a", "validate_b", "execute">>, <<>>, FALSE)
        ELSE IF nt.err.type # "none"
          THEN Outcome(st2, Reraise(nt.err), 0,
                       <<"validate_a", "validate_b", "execute", "record", "notify">>,
                       nt.called, TRUE)
        ELSE Outcome(st2, NoError, ex.value,
                     <<"validate_a", "validate_b", "execute", "record", "notify">>,
                     nt.called, TRUE)

(***************************************************************************)
(* The same updates on the list objects.  lists holds the contents of the  *)
(* list objects; history, undo_stack and redo_stack hold references        *)
(* (indices into lists): the live history list and the list each memento   *)
(* holds.  An in-place change (append, pop(0), clear) changes the object,  *)
(* and with it what every reference to that object sees; copy() makes a    *)
(* new object.                                                             *)
(***************************************************************************)
Heap(lists, h, u, r) ==
    [lists |-> lists, history |-> h, undo_stack |-> u, redo_stack |-> r]

\* A new list object with the given items.
HeapNew(hp, items) ==
    [heap |-> [hp EXCEPT !.lists = Append(@, items)], ref |-> Len(hp.lists) + 1]

\* Faulty variant: no copy is made, the reference itself is handed on.
HeapCopy_SameObject(hp, ref) == [heap |-> hp, ref |-> ref]

\* list.copy(): a new list object with the items of the list.
HeapCopy(hp, ref) == HeapNew(hp, hp.lists[ref])

\* Lines 201-206 on the objects.
HeapRecord(hp, calculation) ==
    LET c == HeapCopy(hp, hp.history)
        pushed == [c.heap EXCEPT !.undo_stack = Append(@, c.ref),
                                 !.redo_stack = <<>>]
    IN  [pushed EXCEPT !.lists[pushed.history] = EnforceBound(Append(@, calculation))]

\* Lines 307-309 on the objects.
HeapUndo(hp) ==
    LET memento == hp.undo_stack[Len(hp.undo_stack)]
        c == HeapCopy(hp, hp.history)
        h == HeapCopy(c.heap, memento)
    IN  [h.heap EXCEPT !.undo_stack = SubSeq(@, 1, Len(@) - 1),
                       !.redo_stack = Append(@, c.ref),
                       !.history = h.ref]

\* Lines 316-318 on the objects.
HeapRedo(hp) ==
    LET memento == hp.redo_stack[Len(hp.redo_stack)]
        c == HeapCopy(hp, hp.history)
        h == HeapCopy(c.heap, memento)
    IN  [h.heap EXCEPT !.redo_stack = SubSeq(@, 1, Len(@) - 1),
                       !.undo_stack = Append(@, c.ref),
                       !.history = h.ref]

\* Lines 298-300 on the objects: the history list is emptied in place.
HeapClear(hp) ==
    [hp EXCEPT !.lists[hp.history] = <<>>, !.undo_stack = <<>>, !.redo_stack = <<>>]

\* Line 257 on the objects: self.history is bound to a new list.
HeapAssign(hp, items) ==
    LET n == HeapNew(hp, items) IN [n.heap EXCEPT !.history = n.ref]

\* Objects no reference leads to are dropped and the others renumbered in
\* the order history, undo stack, redo stack: an object's identity matters
\* only in who shares it.
HeapRefs(hp) == <<hp.history>> \o hp.undo_stack \o hp.redo_stack
HeapRank(refs, x) ==
    LET first == CHOOSE i \in 1..Len(refs) :
                    /\ refs[i] = x
                    /\ \A j \in 1..(i - 1) : refs[j] # x
    IN  Cardinality({refs[j] : j \in 1..first})
HeapNormal(hp) ==
    LET refs == HeapRefs(hp)
        live == {refs[i] : i \in 1..Len(refs)}
    IN  Heap([k \in 1..Cardinality(live) |->
                 hp.lists[CHOOSE x \in live : HeapRank(refs, x) = k]],
             HeapRank(refs, hp.history),
             [i \in 1..Len(hp.undo_stack) |-> HeapRank(refs, hp.undo_stack[i])],
             [i \in 1..Len(hp.redo_stack) |-> HeapRank(refs, hp.redo_stack[i])])

\* What the references of the heap lead to: history and the two stacks as
\* values.
HeapValue(hp) ==
    Engine(hp.lists[hp.history],
           [i \in 1..Len(hp.undo_stack) |-> hp.lists[hp.undo_stack[i]]],
           [i \in 1..Len(hp.redo_stack) |-> hp.lists[hp.redo_stack[i]]])

(***************************************************************************)
(* The timeline of a run: the histories after each recorded operation      *)
(* since construction or the last clear_history, and the place of the      *)
(* current history in it: an operation cuts the timeline after the current *)
(* place and adds its history, undo steps back, redo steps forward.        *)
(***************************************************************************)
Timeline(trail, at) == [trail |-> trail, at |-> at]
TimelineRecord(tl, h) == Timeline(Append(SubSeq(tl.trail, 1, tl.at), h), tl.at + 1)
TimelineBack(tl) == IF tl.at > 1 THEN Timeline(tl.trail, tl.at - 1) ELSE tl
TimelineForward(tl) == IF tl.at < Len(tl.trail) THEN Timeline(tl.trail, tl.at + 1) ELSE tl
TimelineReplace(tl, h) == Timeline([tl.trail EXCEPT ![tl.at] = h], tl.at)

(***************************************************************************)
(* Persistence: the history file is a CSV table, a header and one row of   *)
(* text cells per calculation.                                             *)
(***************************************************************************)
NoFile == [exists |-> FALSE, rows |-> <<>>]
CsvFile(rows) == [exists |-> TRUE, rows |-> rows]

\* One entry of history_data in save_history.
ToRow(calc) ==
    [operation |-> calc.operation,
     operand1 |-> DecimalStr(calc.operand1),
     operand2 |-> DecimalStr(calc.operand2),
     result |-> DecimalStr(calc.result),
     timestamp |-> IsoFormat(calc.timestamp)]

\* save_history(): the file written for a history (header only when empty).
SaveEffect(h) == CsvFile([i \in 1..Len(h) |-> ToRow(h[i])])

\* What a save_history that fails leaves at the path of the history file.
\* to_csv writes to the path itself: a failure before the file is opened
\* (written = -1) leaves the old file, a failure while writing leaves the
\* header and the rows written so far.
InterruptedFile(file, h, written) ==
    IF written < 0 THEN file
    ELSE CsvFile(SubSeq(SaveEffect(h).rows, 1, written))

\* Calculation.from_dict(row): each column parsed back into its type.
RowParses(row) ==
    /\ IsNumeral(row.operand1) /\ IsNumeral(row.operand2)
    /\ IsNumeral(row.result) /\ IsIso(row.timestamp)

from_dict(row) ==
    [operation |-> row.operation,
     operand1 |-> ParseDecimal(row.operand1),
     operand2 |-> ParseDecimal(row.operand2),
     result |-> ParseDecimal(row.result),
     timestamp |-> ParseIso(row.timestamp)]

\* Faulty variant: the rows before the first malformed one are installed
\* before the failure is signalled.
LoadEffect_KeepsParsedRows(file, h) ==
    LET bad == {i \in 1..Len(file.rows) : ~RowParses(file.rows[i])}
        first == CHOOSE i \in bad : \A j \in bad : i <= j
    IN  IF ~file.exists
          THEN [history |-> h, err |-> NoError, replaced |-> FALSE]
        ELSE IF bad # {}
          THEN [history |-> [i \in 1..(first - 1) |-> from_dict(file.rows[i])],
                err |-> OperationError(<<"Failed to load history: ", "parse error">>),
                replaced |-> TRUE]
        ELSE IF file.rows # <<>>
          THEN [history |-> [i \in 1..Len(file.rows) |-> from_dict(file.rows[i])],
                err |-> NoError, replaced |-> TRUE]
        ELSE [history |-> h, err |-> NoError, replaced |-> FALSE]

\* load_history() as a function of the file and the live history.
LoadEffect(file, h) ==
    IF ~file.exists
      THEN [history |-> h, err |-> NoError, replaced |-> FALSE]
    ELSE IF \E i \in 1..Len(file.rows) : ~RowParses(file.rows[i])
      THEN [history |-> h,
            err |-> OperationError(<<"Failed to load history: ", "parse error">>),
            replaced |-> FALSE]
    ELSE IF file.rows # <<>>
      THEN [history |-> [i \in 1..Len(file.rows) |-> from_dict(file.rows[i])],
            err |-> NoError, replaced |-> TRUE]
    ELSE [history |-> h, err |-> NoError, replaced |-> FALSE]

\* History files that may exist before the engine is constructed: none, a
\* header-only table, k well-formed rows of an earlier run, a malformed row,
\* a malformed row after a well-formed one.
OldRow(i) ==
    [operation |-> "Addition", operand1 |-> "1", operand2 |-> DecimalStr(i % 2),
     result |-> DecimalStr(1 + (i % 2)), timestamp |-> IsoFormat(i - 1 - MaxFileRows)]
BadRow ==
    [operation |-> "Addition", operand1 |-> "abc", operand2 |-> "1",
     result |-> "2", timestamp |-> IsoFormat(0 - 1)]
OldFile(k) == CsvFile([i \in 1..k |-> OldRow(i)])
InitialFiles ==
    {NoFile, CsvFile(<<BadRow>>), CsvFile(<<OldRow(1), BadRow>>)}
       \cup {OldFile(k) : k \in 0..MaxFileRows}

(***************************************************************************)
(* State.                                                                  *)
(***************************************************************************)
VARIABLES
    history,             \* self.history
    undo_stack,          \* self.undo_stack
    redo_stack,          \* self.redo_stack
    observers,           \* self.observers
    operation_strategy,  \* self.operation_strategy ("None" when unset)
    history_file,        \* the file at config.history_file
    now,                 \* the clock: the instant of the next Calculation
    last,                \* the last call: its name, inputs and what the caller got
    prev,                \* the call before the last, when it changed the state
    pre,                 \* history and stacks as the last call found them
    pre2,                \* history and stacks as the call before the last found them
    saved,               \* the history the last save_history wrote, if any
    heap,                \* the list objects behind history and the mementos
    timeline             \* the histories of the run and the current place in it

vars == <<history, undo_stack, redo_stack, observers, operation_strategy,
          history_file, now, last, prev, pre, pre2, saved, heap, timeline>>

Current == Engine(history, undo_stack, redo_stack)

NoArg == Str("")

Call(op, a, b, err, ret, steps, called) ==
    [op |-> op, a |-> a, b |-> b, err |-> err, ret |-> ret, steps |-> steps,
     called |-> called, failAt |-> 0]   \* failAt: the registration whose update raised

\* A call that changed history and stacks and returned: a successful
\* perform_operation, an undo or a redo that returned true.

Changed(call) ==
    /\ call.op \in {"perform_operation", "undo", "redo"}
    /\ call.err.type = "none"
    /\ call.op = "perform_operation" \/ call.ret = TRUE

\* Bookkeeping of a call: what the caller got; for the calls that work on the
\* stacks (perform_operation, undo, redo) the state the call started from;
\* for an undo or redo that follows a call that changed the state, that
\* call's name and the state it started from (the name alone after a
\* clear_history or a load_history).
Remember(call) ==
    /\ last' = call
    /\ prev' = IF /\ call.op \in {"undo", "redo"}
                   /\ (Changed(last) \/ last.op \in {"clear_history", "load_history"})
                THEN last.op ELSE "other"
    /\ pre' = IF call.op \in {"perform_operation", "undo", "redo"}
               THEN Current ELSE Engine(<<>>, <<>>, <<>>)
    /\ pre2' = IF call.op \in {"undo", "redo"} /\ Changed(last)
                THEN pre ELSE Engine(<<>>, <<>>, <<>>)

(***************************************************************************)
(* __init__: empty state, then load_history() with a failure swallowed.    *)
(***************************************************************************)
InitWith(files) ==
    /\ history_file \in files
    /\ history = LoadEffect(history_file, <<>>).history
    /\ undo_stack = <<>>
    /\ redo_stack = <<>>
    /\ observers = <<>>
    /\ operation_strategy = "None"
    /\ now = 0
    /\ last = Call("init", NoArg, NoArg, NoError, 0, <<>>, <<>>)
    /\ prev = "other"
    /\ pre = Engine(<<>>, <<>>, <<>>)
    /\ pre2 = Engine(<<>>, <<>>, <<>>)
    /\ saved = [valid |-> FALSE, history |-> <<>>]
    /\ heap = Heap(<<history>>, 1, <<>>, <<>>)
    /\ timeline = Timeline(<<history>>, 1)

(***************************************************************************)
(* Actions: one per public method.                                         *)
(***************************************************************************)
set_operation(operation) ==
    /\ operation_strategy' = operation
    /\ Remember(Call("set_operation", NoArg, NoArg, NoError, 0, <<>>, <<>>))
    /\ UNCHANGED <<history, undo_stack, redo_stack, observers, history_file, now, saved,
                   heap, timeline>>

add_observer(observer) ==
    /\ observers' = Append(observers, observer)
    /\ Remember(Call("add_observer", Str(observer), NoArg, NoError, 0, <<>>, <<>>))
    /\ UNCHANGED <<history, undo_stack, redo_stack, operation_strategy, history_file,
                   now, saved, heap, timeline>>

remove_observer(observer) ==
    /\ IF \E i \in 1..Len(observers) : observers[i] = observer
         THEN /\ observers' = RemoveFirst(observers, observer)
              /\ Remember(Call("remove_observer", Str(observer), NoArg, NoError, 0,
                                <<>>, <<>>))
         ELSE /\ UNCHANGED observers
              /\ Remember(Call("remove_observer", Str(observer), NoArg,
                                ValueError(<<"list.remove(x): x not in list">>), 0,
                                <<>>, <<>>))
    /\ UNCHANGED <<history, undo_stack, redo_stack, operation_strategy, history_file,
                   now, saved, heap, timeline>>

perform_operation(a, b, failAt) ==
    LET out == PerformOperation(Current, operation_strategy, observers, a, b, now, failAt)
        calculation == NewCalculation(operation_strategy, validate_number(a).value,
                                      validate_number(b).value, now)
    IN  /\ history' = out.st.history
        /\ undo_stack' = out.st.undo_stack
        /\ redo_stack' = out.st.redo_stack
        /\ now' = IF out.created THEN now + 1 ELSE now
        /\ heap' = IF out.created
                     THEN HeapNormal(HeapRecord(heap, calculation))
                     ELSE heap
        /\ timeline' = IF out.created THEN TimelineRecord(timeline, out.st.history)
                         ELSE timeline
        /\ Remember([Call("perform_operation", a, b, out.err, out.ret, out.steps,
                           out.called)
                       EXCEPT !.failAt = IF out.created THEN failAt ELSE 0])
        /\ UNCHANGED <<observers, operation_strategy, history_file, saved>>

\* Faulty variant: a stack of one memento is taken for an empty one.
undo_OffByOne ==
    /\ IF Len(undo_stack) <= 1
         THEN /\ UNCHANGED <<history, undo_stack, redo_stack, heap>>
              /\ Remember(Call("undo", NoArg, NoArg, NoError, FALSE, <<>>, <<>>))
         ELSE /\ history' = UndoEffect(Current).history
              /\ undo_stack' = UndoEffect(Current).undo_stack
              /\ redo_stack' = UndoEffect(Current).redo_stack
              /\ heap' = HeapNormal(HeapUndo(heap))
              /\ Remember(Call("undo", NoArg, NoArg, NoError, TRUE, <<>>, <<>>))
    /\ timeline' = TimelineBack(timeline)
    /\ UNCHANGED <<observers, operation_strategy, history_file, now, saved>>

undo ==
    /\ IF undo_stack = <<>>
         THEN /\ UNCHANGED <<history, undo_stack, redo_stack, heap>>
              /\ Remember(Call("undo", NoArg, NoArg, NoError, FALSE, <<>>, <<>>))
         ELSE /\ history' = UndoEffect(Current).history
              /\ undo_stack' = UndoEffect(Current).undo_stack
              /\ redo_stack' = UndoEffect(Current).redo_stack
              /\ heap' = HeapNormal(HeapUndo(heap))
              /\ Remember(Call("undo", NoArg, NoArg, NoError, TRUE, <<>>, <<>>))
    /\ timeline' = TimelineBack(timeline)
    /\ UNCHANGED <<observers, operation_strategy, history_file, now, saved>>

redo ==
    /\ IF redo_stack = <<>>
         THEN /\ UNCHANGED <<history, undo_stack, redo_stack, heap>>
              /\ Remember(Call("redo", NoArg, NoArg, NoError, FALSE, <<>>, <<>>))
         ELSE /\ history' = RedoEffect(Current).history
              /\ undo_stack' = RedoEffect(Current).undo_stack
              /\ redo_stack' = RedoEffect(Current).redo_stack
              /\ heap' = HeapNormal(HeapRedo(heap))
              /\ Remember(Call("redo", NoArg, NoArg, NoError, TRUE, <<>>, <<>>))
    /\ timeline' = TimelineForward(timeline)
    /\ UNCHANGED <<observers, operation_strategy, history_file, now, saved>>

clear_history ==
    /\ history' = ClearEffect(Current).history
    /\ undo_stack' = ClearEffect(Current).undo_stack
    /\ redo_stack' = ClearEffect(Current).redo_stack
    /\ heap' = HeapNormal(HeapClear(heap))
    /\ timeline' = Timeline(<<<<>>>>, 1)
    /\ Remember(Call("clear_history", NoArg, NoArg, NoError, 0, <<>>, <<>>))
    /\ UNCHANGED <<observers, operation_strategy, history_file, now, saved>>

save_history ==
    /\ history_file' = SaveEffect(history)
    /\ saved' = [valid |-> TRUE, history |-> history]
    /\ Remember(Call("save_history", NoArg, NoArg, NoError, 0, <<>>, <<>>))
    /\ UNCHANGED <<history, undo_stack, redo_stack, observers, operation_strategy, now,
                   heap, timeline>>

\* save_history() when mkdir or to_csv raises: the except clause wraps the
\* failure in an OperationError.
save_history_failing(written) ==
    /\ history_file' = InterruptedFile(history_file, history, written)
    /\ saved' = [valid |-> FALSE, history |-> <<>>]
    /\ Remember(Call("save_history", NoArg, NoArg,
                      OperationError(<<"Failed to save history: ", "write error">>), 0,
                      <<>>, <<>>))
    /\ UNCHANGED <<history, undo_stack, redo_stack, observers, operation_strategy, now,
                   heap, timeline>>

\* Faulty variant: a load that replaces the history also empties the stacks.
load_history_ResetsStacks ==
    LET out == LoadEffect(history_file, history)
    IN  /\ history' = out.history
        /\ undo_stack' = IF out.replaced THEN <<>> ELSE undo_stack
        /\ redo_stack' = IF out.replaced THEN <<>> ELSE redo_stack
        /\ heap' = IF out.replaced THEN Heap(<<out.history>>, 1, <<>>, <<>>) ELSE heap
        /\ timeline' = IF out.replaced THEN Timeline(<<out.history>>, 1) ELSE timeline
        /\ Remember(Call("load_history", NoArg, NoArg, out.err, 0, <<>>, <<>>))
        /\ UNCHANGED <<observers, operation_strategy, history_file, now, saved>>

load_history ==
    LET out == LoadEffect(history_file, history)
    IN  /\ history' = out.history
        /\ heap' = IF out.replaced THEN HeapNormal(HeapAssign(heap, out.history))
                     ELSE heap
        /\ timeline' = TimelineReplace(timeline, out.history)
        /\ Remember(Call("load_history", NoArg, NoArg, out.err, 0, <<>>, <<>>))
        /\ UNCHANGED <<undo_stack, redo_stack, observers, operation_strategy,
                       history_file, now, saved>>

(***************************************************************************)
(* Specifications.  Each one is the engine under callers that use a part   *)
(* of the interface, which keeps the reachable states within what can be   *)
(* enumerated; together they call every method.                            *)
(***************************************************************************)
\* The caller's operations: operands from A and B, at most `limit`
\* calculations created in the run.  Which update raises is a choice only
\* in a call that gets as far as notifying.
Notifies(a, b) ==
    PerformOperation(Current, operation_strategy, observers, a, b, now, 0).created

Perform(A, B, limit) ==
    \E a \in A, b \in B :
       \E failAt \in IF Notifies(a, b) THEN 0..Len(observers) ELSE {0} :
          /\ perform_operation(a, b, failAt)
          /\ now' <= limit
SetOperation == \E operation \in Strategies : set_operation(operation)
\* The caller registers at most `limit` observers at a time.
Register(limit) ==
    \E observer \in ObserverIds :
       /\ add_observer(observer)
       /\ Len(observers') <= limit
AddObserver == Register(MaxObservers)
RemoveObserver == \E observer \in ObserverIds : remove_observer(observer)
\* A save that fails, at any point of the write.
SaveFails == \E written \in (0 - 1)..(Len(history) - 1) : save_history_failing(written)

\* Undo/redo: the history starts empty, at its bound or above it (a file
\* written under a larger bound); long runs of operations on operands that
\* validate (a division by zero still fails), undo, redo, clear.
UndoFiles == {NoFile, OldFile(max_history_size), OldFile(MaxFileRows)}
InitUndo == InitWith(UndoFiles)
NextUndo ==
    \/ SetOperation
    \/ Perform(ValidA, ValidB, MaxClock)
    \/ undo
    \/ redo
    \/ clear_history

SpecUndo == InitUndo /\ [][NextUndo]_vars

\* Notification: no history file; observers registered, operations on any
\* operands, undo, redo.
InitNotify == InitWith({NoFile})
NextNotify ==
    \/ SetOperation
    \/ AddObserver
    \/ Perform(RawA, RawB, MaxNotifyRun)
    \/ undo
    \/ redo

SpecNotify == InitNotify /\ [][NextNotify]_vars

\* The observer registry: a history of one record loaded at construction or
\* none; observers registered and removed, operations on operands that
\* validate and that do not.
RegistryFiles == {NoFile, OldFile(1)}
InitRegistry == InitWith(RegistryFiles)
NextRegistry ==
    \/ SetOperation
    \/ Register(MaxRegistrations)
    \/ RemoveObserver
    \/ Perform(RawA, {Num(0), Str("abc")}, MaxNotifyRun)

SpecRegistry == InitRegistry /\ [][NextRegistry]_vars

\* Persistence: any initial file; operations on operands that validate,
\* clear, save and load.
InitPersist == InitWith(InitialFiles)
NextPersist ==
    \/ SetOperation
    \/ Perform(ValidA, ValidB, MaxShortRun)
    \/ clear_history
    \/ save_history
    \/ load_history

SpecPersist == InitPersist /\ [][NextPersist]_vars

\* Saving: no history file at first; operations on operands that validate,
\* saves that succeed and saves that fail, loads.
InitSave == InitWith({NoFile})
NextSave ==
    \/ SetOperation
    \/ Perform(ValidA, ValidB, MaxShortRun)
    \/ save_history
    \/ SaveFails
    \/ load_history

SpecSave == InitSave /\ [][NextSave]_vars

\* Reloading: no history file or one with a record; an observer, operations
\* on operands that validate, loads and undo.
ReloadFiles == {NoFile, OldFile(1)}
InitReload == InitWith(ReloadFiles)
NextReload ==
    \/ SetOperation
    \/ Register(1)
    \/ Perform(ValidA, ValidB, MaxShortRun)
    \/ load_history
    \/ undo

SpecReload == InitReload /\ [][NextReload]_vars

\* Clearing: a history file with a record; an observer, operations on
\* operands that validate, undo, redo and clear.
InitClear == InitWith({OldFile(1)})
NextClear ==
    \/ SetOperation
    \/ Register(1)
    \/ Perform(ValidA, ValidB, MaxShortRun)
    \/ undo
    \/ redo
    \/ clear_history

SpecClear == InitClear /\ [][NextClear]_vars

\* The whole interface.
Init == InitWith(InitialFiles)
Next ==
    \/ NextUndo
    \/ NextNotify
    \/ NextRegistry
    \/ NextPersist
    \/ NextSave
    \/ NextReload
    \/ NextClear

Spec == Init /\ [][Next]_vars

(***************************************************************************)
(* Properties.                                                             *)
(***************************************************************************)
Returned(call) == call.err.type = "none"
PerformedOk == last.op = "perform_operation" /\ Returned(last)
Newest(h) == h[Len(h)]

\* C1: undo/redo inverse law.  When undo() follows a successful
\* perform_operation that turned history H into H', it returns true and the
\* history is exactly H again, also when the operation evicted H's oldest
\* record; when redo() follows that undo, the history is exactly H' again.
C1_UndoRedoInverse ==
    /\ (last.op = "undo" /\ prev = "perform_operation")
          => last.ret = TRUE /\ history = pre2.history
    /\ (last.op = "redo" /\ prev = "undo")
          => last.ret = TRUE /\ history = pre2.history

\* An undo has just restored a history that was at its bound, after an
\* operation that evicted its oldest record.
C1_Witness ==
    /\ last.op = "undo" /\ prev = "perform_operation"
    /\ Len(pre2.history) = max_history_size
    /\ Len(pre.history) = max_history_size
    /\ pre2.history[1] # pre.history[1]
    /\ history = pre2.history

\* C2: perform_operation is atomic on failure.  Whenever the call signals
\* an error, history, undo stack and redo stack are as the call found them.
C2_AtomicOnFailure ==
    (last.op = "perform_operation" /\ ~Returned(last)) => Current = pre

\* C3: the history is bounded by max_history_size in every reachable state.
C3_HistoryBounded == Len(history) <= max_history_size

\* C4: a new operation clears redo.  After a successful perform_operation
\* the redo stack is empty, and a redo() that follows it returns false and
\* leaves history and stacks as they were.
C4_OperationClearsRedo ==
    /\ PerformedOk => redo_stack = <<>>
    /\ (last.op = "redo" /\ prev = "perform_operation")
          => last.ret = FALSE /\ Current = pre

\* A redo has just returned false after an operation that was performed
\* with a non-empty redo stack.
C4_Witness ==
    /\ last.op = "redo" /\ prev = "perform_operation"
    /\ pre2.redo_stack # <<>>
    /\ last.ret = FALSE

\* C5: a successful undo() followed by redo(), and a successful redo()
\* followed by undo(), restore history, undo stack and redo stack to what
\* they were before the pair of calls.
C5_UndoRedoRoundTrip ==
    /\ (last.op = "redo" /\ prev = "undo") => last.ret = TRUE /\ Current = pre2
    /\ (last.op = "undo" /\ prev = "redo") => last.ret = TRUE /\ Current = pre2

\* An undo has just reverted a redo, with both stacks non-empty.
C5_Witness ==
    /\ last.op = "undo" /\ prev = "redo"
    /\ undo_stack # <<>> /\ redo_stack # <<>>
    /\ history # pre.history
    /\ Current = pre2

\* C6: FIFO eviction after insert.  A successful perform_operation on a
\* history h1..hn of max_history_size records leaves h2..hn followed by the
\* new record, which is none of h1..hn.
C6_FifoEviction ==
    (PerformedOk /\ Len(pre.history) = max_history_size)
       => /\ history = Append(Tail(pre.history), Newest(history))
          /\ Newest(history).timestamp = now - 1
          /\ \A i \in 1..Len(pre.history) : pre.history[i].timestamp < now - 1

\* An operation has just evicted a record that an earlier operation of the
\* run had appended: the history was filled and overflowed by operations.
C6_Witness ==
    /\ PerformedOk
    /\ Len(pre.history) = max_history_size
    /\ pre.history[1].timestamp >= 0
    /\ Len(history) = max_history_size
    /\ history[1] = pre.history[2]

C8_SaveLoadRoundTrip ==
    (last.op = "load_history" /\ saved.valid)
       => Returned(last) /\ history = saved.history

\* C9: observer fan-out.  A successful perform_operation calls update once
\* per registration, in registration order, each time with the record that
\* was appended to the history.
C9_ObserverFanOut ==
    PerformedOk
       => last.called = [i \in 1..Len(observers) |->
                            [observer |-> observers[i],
                             calculation |-> Newest(history)]]

\* An operation has just notified two registrations, the later-named
\* observer first.
C9_Witness ==
    /\ PerformedOk
    /\ Len(observers) >= 2
    /\ observers[1] = "o2" /\ observers[2] = "o1"
    /\ Len(last.called) = Len(observers)

\* C10: error classification with a strategy set.  An operand that fails
\* validation reaches the caller as the validator's ValidationError itself,
\* with the strategy not executed, nothing recorded and no observer called;
\* any other failure reaches the caller as an OperationError whose message
\* is "Operation failed: " followed by the message of the cause.
C10_ErrorClassification ==
    LET va == validate_number(last.a)
        vb == validate_number(last.b)
        ex == execute(operation_strategy, va.value, vb.value)
    IN  (last.op = "perform_operation" /\ operation_strategy # "None")
           => /\ (~va.ok \/ ~vb.ok)
                   => /\ last.err = IF ~va.ok THEN va.err ELSE vb.err
                      /\ last.err.type = "ValidationError"
                      /\ \A i \in 1..Len(last.steps) :
                            last.steps[i] \in {"validate_a", "validate_b"}
                      /\ last.called = <<>>
                      /\ Current = pre
              /\ (va.ok /\ vb.ok /\ ~Returned(last))
                   => /\ last.err.type = "OperationError"
                      /\ \/ ~ex.ok /\ last.err.msg = <<"Operation failed: ">> \o ex.err.msg
                         \/ /\ ex.ok /\ last.failAt > 0
                            /\ last.err.msg = <<"Operation failed: ">>
                                  \o ObserverFailure(observers[last.failAt]).msg

\* A validation error on the second operand has just reached the caller,
\* with a calculation recorded, a memento on the undo stack and an observer
\* registered.
C10_Witness ==
    /\ last.op = "perform_operation"
    /\ last.err.type = "ValidationError"
    /\ last.steps = <<"validate_a", "validate_b">>
    /\ history # <<>> /\ undo_stack # <<>>
    /\ observers # <<>>
    /\ Current = pre

\* C11: with no strategy set, perform_operation signals the OperationError
\* "No operation set" whatever the operands are, validates no operand,
\* notifies no observer and leaves history, both stacks and the observer
\* list as they were.
C11_NoOperationSet ==
    [][(last'.op = "perform_operation" /\ operation_strategy = "None")
          => /\ last'.err = OperationError(<<"No operation set">>)
             /\ last'.steps = <<>>
             /\ last'.called = <<>>
             /\ UNCHANGED <<history, undo_stack, redo_stack, observers>>]_vars

\* Without a strategy, an operand that is no number has just been passed,
\* with a record in the history and an observer registered.
C11_Witness ==
    /\ last.op = "perform_operation"
    /\ operation_strategy = "None"
    /\ last.a = Str("abc")
    /\ last.err = OperationError(<<"No operation set">>)
    /\ history # <<>>
    /\ observers # <<>>

\* C12: undo() returns false exactly when it finds the undo stack empty,
\* redo() returns false exactly when it finds the redo stack empty; a call
\* that returns false signals no error and leaves history and both stacks
\* as they were.
C12_FalseOnEmpty ==
    /\ last.op = "undo"
          => /\ Returned(last)
             /\ last.ret = FALSE <=> pre.undo_stack = <<>>
             /\ last.ret = FALSE => Current = pre
    /\ last.op = "redo"
          => /\ Returned(last)
             /\ last.ret = FALSE <=> pre.redo_stack = <<>>
             /\ last.ret = FALSE => Current = pre

\* An undo has just returned false with a history that is not empty and a
\* memento on the redo stack.
C12_Witness ==
    /\ last.op = "undo"
    /\ last.ret = FALSE
    /\ history # <<>>
    /\ redo_stack # <<>>
    /\ Current = pre

\* A history file with a row that does not parse.
Malformed(file) ==
    file.exists /\ \E i \in 1..Len(file.rows) : ~RowParses(file.rows[i])

\* C13: load_history with no history file signals no error and leaves the
\* history as it was; with a malformed file it signals an OperationError
\* and leaves the history as it was, no row of the file loaded.  At
\* construction the history starts empty without a file, and a failed load
\* is swallowed: the engine starts with an empty history and empty stacks.
C13_LoadOutcomes ==
    /\ [][last'.op = "load_history"
            => /\ ~history_file.exists
                    => Returned(last') /\ history' = history
               /\ Malformed(history_file)
                    => /\ last'.err.type = "OperationError"
                       /\ history' = history]_vars
    /\ []((last.op = "init" /\ (~history_file.exists \/ Malformed(history_file)))
            => /\ Returned(last)
               /\ Current = Engine(<<>>, <<>>, <<>>))

\* A load of a file whose second row is malformed has just failed, and the
\* record the history held is still there.
C13_Witness ==
    /\ last.op = "load_history"
    /\ last.err.type = "OperationError"
    /\ Len(history_file.rows) = 2
    /\ Len(history) = 1
    /\ history[1].timestamp >= 0

\* C14: remove_observer(o) removes the first registration equal to o and
\* keeps the others in their order; when o is not registered it signals a
\* lookup failure and leaves the list as it was.  A later operation
\* notifies the registrations that remain, duplicates of o included.
C14_RemoveObserver ==
    /\ [][last'.op = "remove_observer"
            => LET o == last'.a.text
                   n == Len(observers)
                   hits == {i \in 1..n : observers[i] = o}
                   first == CHOOSE i \in hits : \A j \in hits : i <= j
               IN  IF hits = {}
                     THEN /\ last'.err.type = "ValueError"
                          /\ observers' = observers
                     ELSE /\ Returned(last')
                          /\ observers' = [j \in 1..(n - 1) |->
                                             IF j < first THEN observers[j]
                                                          ELSE observers[j + 1]]]_vars
    /\ [](PerformedOk
            => /\ Len(last.called) = Len(observers)
               /\ \A i \in 1..Len(observers) :
                     last.called[i].observer = observers[i])

\* The first of two registrations of o1 has just been removed: o2 and the
\* later registration of o1 remain, in this order.
C14_Witness ==
    /\ last.op = "remove_observer"
    /\ Returned(last)
    /\ last.a = Str("o1")
    /\ observers = <<"o2", "o1">>

\* C15: save has no partial-write visibility.  After a save_history that
\* succeeds the file holds the complete history; after one that fails the
\* file at the path is what it was before the call.
C15_SaveAllOrNothing ==
    [][last'.op = "save_history"
         => IF Returned(last') THEN history_file' = SaveEffect(history)
            ELSE history_file' = history_file]_vars

\* C16: observers are notified only by a successful perform_operation and
\* only after its update of the history is complete: when an observer is
\* notified the new record is the last of the history, the history is
\* within max_history_size, the history the call found is on top of the undo
\* stack and the redo stack is empty.  A perform_operation that fails in
\* validation or in the strategy notifies no observer, and undo, redo,
\* clear_history, load_history and save_history never notify.
C16_NotifyAfterUpdate ==
    /\ last.called # <<>>
          => /\ PerformedOk
             /\ history # <<>>
             /\ \A i \in 1..Len(last.called) :
                   last.called[i].calculation = Newest(history)
             /\ Len(history) <= max_history_size
             /\ undo_stack # <<>>
             /\ Newest(undo_stack) = pre.history
             /\ redo_stack = <<>>
    /\ (last.op = "perform_operation" /\ \A i \in 1..Len(last.steps) :
                                            last.steps[i] # "notify")
          => last.called = <<>>
    /\ last.op \in {"undo", "redo", "clear_history", "load_history", "save_history"}
          => last.called = <<>>

\* A history file that load_history reads into a history: it exists, has
\* rows and every row parses.
Loadable(file) == file.exists /\ file.rows # <<>> /\ ~Malformed(file)

\* C17: no aliasing between the mementos and the live history.  The live
\* history list and the lists the mementos hold are different objects, each
\* held once, and what they hold is what was pushed: no append, eviction or
\* clear of the live history has changed a memento on either stack.
C17_NoAliasing ==
    /\ HeapValue(heap) = Current
    /\ Cardinality({HeapRefs(heap)[i] : i \in 1..Len(HeapRefs(heap))})
          = Len(HeapRefs(heap))

\* An undo has just restored the history that an operation had appended to
\* and evicted from in place, while mementos are held on both stacks.
C17_Witness ==
    /\ last.op = "undo" /\ prev = "perform_operation"
    /\ Len(pre2.history) = max_history_size
    /\ undo_stack # <<>> /\ redo_stack # <<>>
    /\ HeapValue(heap).history = pre2.history
    /\ HeapValue(heap).redo_stack[Len(redo_stack)] = pre.history

\* C18: the undo depth is not limited by max_history_size.  The undo stack
\* holds one memento for each operation recorded before the current place
\* of the timeline and the redo stack one for each after it, so after k
\* operations on a new or cleared engine k undos return true and the next
\* returns false; the history is the one of the current place, after the
\* i-th undo that of the (k-i)-th operation.  undo and redo keep the sum of
\* the two stack lengths, and a successful operation adds one memento to the
\* undo stack.
C18_UndoDepth ==
    /\ Len(undo_stack) = timeline.at - 1
    /\ Len(redo_stack) = Len(timeline.trail) - timeline.at
    /\ history = timeline.trail[timeline.at]
    /\ last.op = "undo" => (last.ret = TRUE <=> pre.undo_stack # <<>>)
    /\ last.op \in {"undo", "redo"}
          => Len(undo_stack) + Len(redo_stack)
                = Len(pre.undo_stack) + Len(pre.redo_stack)
    /\ PerformedOk => Len(undo_stack) = Len(pre.undo_stack) + 1

\* More operations than max_history_size have been undone one by one: the
\* last undo has returned true and the history is the one the run began
\* with, which was at its bound.
C18_Witness ==
    /\ last.op = "undo" /\ last.ret = TRUE
    /\ timeline.at = 1
    /\ Len(timeline.trail) > max_history_size + 1
    /\ Len(redo_stack) > max_history_size
    /\ history = timeline.trail[1]
    /\ Len(history) = max_history_size

\* C19: load_history leaves the undo stack, the redo stack, the observer
\* list and the strategy as they were and notifies no observer.  An undo()
\* that follows a load and finds a memento installs that memento, which the
\* load found on the stack, and pushes the history it found, the loaded one
\* when the load replaced the history, onto the redo stack.
C19_LoadChangesOnlyHistory ==
    /\ [][last'.op = "load_history"
            => /\ UNCHANGED <<undo_stack, redo_stack, observers, operation_strategy>>
               /\ last'.called = <<>>]_vars
    /\ []((last.op = "undo" /\ prev = "load_history" /\ pre.undo_stack # <<>>)
            => /\ last.ret = TRUE
               /\ history = Newest(pre.undo_stack)
               /\ undo_stack = SubSeq(pre.undo_stack, 1, Len(pre.undo_stack) - 1)
               /\ redo_stack = Append(pre.redo_stack, pre.history)
               /\ Loadable(history_file)
                    => pre.history = [i \in 1..Len(history_file.rows) |->
                                         from_dict(history_file.rows[i])])

\* An undo has just followed a load that replaced a history of the run by
\* the record of the file: the history the operation before the load had
\* found is back, the loaded history is on the redo stack and an observer
\* is registered.
C19_Witness ==
    /\ last.op = "undo" /\ prev = "load_history"
    /\ last.ret = TRUE
    /\ Loadable(history_file)
    /\ history # <<>> /\ history # pre.history
    /\ Newest(history).timestamp >= 0
    /\ redo_stack # <<>> /\ Newest(redo_stack) = pre.history
    /\ observers # <<>>

\* C20: clear_history empties the history, the undo stack and the redo
\* stack and cannot be undone: an undo() or redo() right after it returns
\* false and the history stays empty.  It leaves the observer list, the
\* strategy and the history file as they were.
C20_ClearHistory ==
    /\ [](last.op = "clear_history"
            => Returned(last) /\ Current = Engine(<<>>, <<>>, <<>>))
    /\ []((last.op \in {"undo", "redo"} /\ prev = "clear_history")
            => last.ret = FALSE /\ Current = Engine(<<>>, <<>>, <<>>))
    /\ [][last'.op = "clear_history"
            => UNCHANGED <<observers, operation_strategy, history_file>>]_vars

\* A redo has just returned false after a clear_history, with an observer
\* registered, a strategy set and records in the history file.
C20_Witness ==
    /\ last.op = "redo" /\ prev = "clear_history"
    /\ last.ret = FALSE
    /\ history = <<>>
    /\ observers # <<>>
    /\ operation_strategy # "None"
    /\ history_file.rows # <<>>

====
